---- MODULE Spec2Model ----
(***************************************************************************)
(* Photo to KML web app (src/app.py): the upload handler and the three     *)
(* functions it composes, get_exif_data, get_gps_coordinates, create_kml.  *)
(*                                                                         *)
(* Numbers.  A Python float is modelled as a sign and an exact fraction,   *)
(* [neg, num, den]: angles in arc-seconds (den = 3600), altitudes in       *)
(* tenths of a metre (den = 10).  The sign is kept apart from the          *)
(* magnitude because negating 0.0 gives -0.0, which prints with a sign     *)
(* but is neither < 0 nor truthy.                                          *)
(*                                                                         *)
(* Text.  Strings are TLA+ strings; a text whose characters matter one by  *)
(* one (the placemark description) is a sequence of tokens in which every  *)
(* markup character is a token of its own.                                 *)
(***************************************************************************)
EXTENDS Integers, Sequences, FiniteSets, TLC

VARIABLES req, uploads, kml_files

vars == <<req, uploads, kml_files>>

-----------------------------------------------------------------------------
(* Bounds of the checked instances *)

MaxDeg == 1
MaxSec == 1
MaxAlt == 1
\* decimal places kept of a float's str() form
ReprPlaces == 14

-----------------------------------------------------------------------------
(* Python values *)

None == <<>>
Some(v) == <<v>>
IsNone(o) == o = <<>>
Val(o) == o[1]

EmptyDict == <<>>
Has(d, k) == k \in DOMAIN d

AngleDen == 3600
AltDen == 10

Float(n, den) == [neg |-> FALSE, num |-> n, den |-> den]
Negate(x) == [x EXCEPT !.neg = ~x.neg]
IsNegative(x) == x.neg /\ x.num # 0
Truthy(x) == x.num # 0

-----------------------------------------------------------------------------
(* Number formatting *)

RECURSIVE Pow10(_)
Pow10(k) == IF k = 0 THEN 1 ELSE 10 * Pow10(k - 1)

RECURSIVE ZeroPad(_, _)
ZeroPad(n, width) ==
    IF width = 0 THEN ""
    ELSE ZeroPad(n \div 10, width - 1) \o ToString(n % 10)

\* round(num * 10^places / den), one decimal place at a time
RECURSIVE ScaledDigits(_, _, _, _)
ScaledDigits(q, r, den, places) ==
    IF places = 0 THEN (IF 2 * r >= den THEN q + 1 ELSE q)
    ELSE ScaledDigits(q * 10 + (r * 10) \div den, (r * 10) % den, den, places - 1)

SignText(x) == IF x.neg THEN "-" ELSE ""

\* format(x, ".<places>f")
FormatFixed(x, places) ==
    LET scaled == ScaledDigits(x.num \div x.den, x.num % x.den, x.den, places)
    IN  SignText(x) \o ToString(scaled \div Pow10(places)) \o "."
            \o ZeroPad(scaled % Pow10(places), places)

\* the decimal places of r/den from the given place on, trailing zeros dropped
RECURSIVE FractionText(_, _, _)
FractionText(r, den, places) ==
    IF r = 0 \/ places = 0 THEN ""
    ELSE ToString((r * 10) \div den) \o FractionText((r * 10) % den, den, places - 1)

\* str(x) of a float: every place the value has, at least one
FloatStr(x) ==
    LET frac == FractionText(x.num % x.den, x.den, ReprPlaces)
    IN  SignText(x) \o ToString(x.num \div x.den) \o "."
            \o (IF frac = "" THEN "0" ELSE frac)

-----------------------------------------------------------------------------
(* convert_to_degrees, get_gps_coordinates *)

\* "d, m, s = value" raises ValueError unless value has three components
UnpacksToThree(value) == Len(value) = 3

ConvertToDegreesWrongMinutes(value) ==
    Float(value[1] * AngleDen + (value[2] * AngleDen) \div 3600
              + (value[3] * AngleDen) \div 3600, AngleDen)

ConvertToDegrees(value) ==
    Float(value[1] * AngleDen + (value[2] * AngleDen) \div 60
              + (value[3] * AngleDen) \div 3600, AngleDen)

\* float(v) of the altitude value raises unless v is numeric
FloatOk(v) == v.numeric

Returned(v) == [status |-> "return", value |-> v]
Raised(e) == [status |-> "raise", exc |-> e]

HasPair(gps_info, k, kref) == Has(gps_info, k) /\ Has(gps_info, kref)

SignedNever(x, negate) == x

Signed(x, negate) == IF negate THEN Negate(x) ELSE x

GetGpsCoordinates(exif_data) ==
    IF IsNone(exif_data) \/ ~Has(Val(exif_data), "GPSInfo") THEN Returned(None)
    ELSE
    LET gps_info == Val(exif_data)["GPSInfo"]
        hasLat == HasPair(gps_info, "GPSLatitude", "GPSLatitudeRef")
        hasLon == HasPair(gps_info, "GPSLongitude", "GPSLongitudeRef")
        hasAlt == Has(gps_info, "GPSAltitude")
        lat == Signed(ConvertToDegrees(gps_info["GPSLatitude"]),
                      gps_info["GPSLatitudeRef"] = "S")
        lon == Signed(ConvertToDegrees(gps_info["GPSLongitude"]),
                      gps_info["GPSLongitudeRef"] = "W")
        belowSea == Has(gps_info, "GPSAltitudeRef") /\ gps_info["GPSAltitudeRef"] = 1
        altitude == IF hasAlt
                    THEN Some(Signed(Float(gps_info["GPSAltitude"].v, AltDen), belowSea))
                    ELSE None
    IN  IF hasLat /\ ~UnpacksToThree(gps_info["GPSLatitude"]) THEN Returned(None)
        ELSE IF hasLon /\ ~UnpacksToThree(gps_info["GPSLongitude"]) THEN Returned(None)
        ELSE IF hasAlt /\ ~FloatOk(gps_info["GPSAltitude"]) THEN Returned(None)
        ELSE IF ~hasLat \/ ~hasLon THEN Raised("UnboundLocalError")
        ELSE Returned(Some([latitude |-> lat, longitude |-> lon, altitude |-> altitude]))

-----------------------------------------------------------------------------
(* allowed_file *)

ALLOWED_EXTENSIONS == {"jpg", "jpeg", "png", "tiff", "heic"}

\* A filename is the sequence of its parts between dots: "" is <<"">>.
ContainsDot(filename) == Len(filename) > 1
LastPart(filename) == filename[Len(filename)]

\* str.lower() on the extensions of the checked instances
Lower(s) == CASE s = "JPG" -> "jpg" [] s = "PNG" -> "png" [] OTHER -> s

RECURSIVE JoinDots(_)
JoinDots(parts) ==
    IF Len(parts) = 1 THEN parts[1]
    ELSE parts[1] \o "." \o JoinDots(Tail(parts))

AllowedFileAny(filename) == ContainsDot(filename)

AllowedFile(filename) ==
    ContainsDot(filename) /\ Lower(LastPart(filename)) \in ALLOWED_EXTENSIONS

-----------------------------------------------------------------------------
(* get_exif_data: an image is [readable, exif], exif the tag-name mapping *)

GetExifData(image) ==
    IF ~image.readable THEN None
    ELSE IF image.exif = EmptyDict THEN None
    ELSE Some(image.exif)

-----------------------------------------------------------------------------
(* create_kml *)

Tag(name) == <<"<", name, ">">>

\* "if coordinates['altitude']": None and 0.0 are both false
AltitudeIncluded(coordinates) ==
    ~IsNone(coordinates.altitude) /\ Truthy(Val(coordinates.altitude))

TimestampText(timestamp) == IF IsNone(timestamp) THEN "Unknown" ELSE Val(timestamp)

DescriptionText(photo_filename, coordinates, photo_url, timestamp) ==
    <<"<", "![CDATA[">>
    \o Tag("h3") \o <<photo_filename>> \o Tag("/h3")
    \o Tag("p") \o <<"Captured: " \o TimestampText(timestamp)>> \o Tag("/p")
    \o Tag("p")
    \o <<"Coordinates: " \o FormatFixed(coordinates.latitude, 6) \o ", "
             \o FormatFixed(coordinates.longitude, 6)>>
    \o Tag("/p")
    \o (IF AltitudeIncluded(coordinates)
        THEN Tag("p")
             \o <<"Altitude: " \o FormatFixed(Val(coordinates.altitude), 2) \o "m">>
             \o Tag("/p")
        ELSE <<>>)
    \o Tag("img src=\"" \o photo_url \o "\" width=\"300\" alt=\"Photo\"/") \o Tag("br/")
    \o Tag("a href=\"" \o photo_url \o "\" target=\"_blank\"")
    \o <<"View Full Size">> \o Tag("/a")
    \o <<"]]", ">">>

PointTextLatFirst(coordinates) ==
    IF AltitudeIncluded(coordinates)
    THEN FloatStr(coordinates.latitude) \o "," \o FloatStr(coordinates.longitude)
             \o "," \o FloatStr(Val(coordinates.altitude))
    ELSE FloatStr(coordinates.latitude) \o "," \o FloatStr(coordinates.longitude)

PointText(coordinates) ==
    IF AltitudeIncluded(coordinates)
    THEN FloatStr(coordinates.longitude) \o "," \o FloatStr(coordinates.latitude)
             \o "," \o FloatStr(Val(coordinates.altitude))
    ELSE FloatStr(coordinates.longitude) \o "," \o FloatStr(coordinates.latitude)

\* ElementTree escapes the markup characters of element text on output
EscapeChar(c) ==
    CASE c = "&" -> "&amp;" [] c = "<" -> "&lt;" [] c = ">" -> "&gt;" [] OTHER -> c

UnescapeChar(c) ==
    CASE c = "&amp;" -> "&" [] c = "&lt;" -> "<" [] c = "&gt;" -> ">" [] OTHER -> c

\* ET.tostring on a text node
EscapeCdata(text) == [i \in DOMAIN text |-> EscapeChar(text[i])]
\* minidom.parseString on the escaped text
ParseText(text) == [i \in DOMAIN text |-> UnescapeChar(text[i])]
\* toprettyxml on the parsed text node
WriteData(text) == [i \in DOMAIN text |-> EscapeChar(text[i])]

CreateKml(photo_filename, coordinates, photo_url, timestamp) ==
    [ name           |-> "Photo Location: " \o photo_filename,
      pm_name        |-> photo_filename,
      pm_description |-> WriteData(ParseText(EscapeCdata(
                             DescriptionText(photo_filename, coordinates,
                                             photo_url, timestamp)))),
      coordinates    |-> PointText(coordinates) ]

-----------------------------------------------------------------------------
(* Requests of the checked instances *)

DmsValues ==
    { <<d, 0, s>> : d \in 0..MaxDeg, s \in 0..MaxSec }
        \cup { <<1, 59, 1>>, <<40, 26, 46>>, <<79, 58, 56>> }

\* a GPSLatitude / GPSLongitude value that is not a triple
ShortDms == <<1, 2>>

AltitudeValues ==
    { [numeric |-> TRUE, v |-> n] : n \in (0..MaxAlt) \cup {100, 350} }
        \cup { [numeric |-> FALSE, v |-> 0] }

GpsKeys == { "GPSLatitude", "GPSLatitudeRef", "GPSLongitude", "GPSLongitudeRef",
             "GPSAltitude", "GPSAltitudeRef" }

GpsInfo(keys, lat, latRef, lon, lonRef, alt, altRef) ==
    [ k \in keys |->
        CASE k = "GPSLatitude"     -> lat
          [] k = "GPSLatitudeRef"  -> latRef
          [] k = "GPSLongitude"    -> lon
          [] k = "GPSLongitudeRef" -> lonRef
          [] k = "GPSAltitude"     -> alt
          [] k = "GPSAltitudeRef"  -> altRef ]

GpsInfos ==
    { GpsInfo(keys, lat, latRef, lon, lonRef, alt, altRef) :
        keys \in SUBSET GpsKeys,
        lat \in DmsValues \cup {ShortDms}, latRef \in {"N", "S"},
        lon \in DmsValues \cup {ShortDms}, lonRef \in {"E", "W"},
        alt \in AltitudeValues, altRef \in {0, 1} }

Pittsburgh ==
    GpsInfo(GpsKeys \ {"GPSAltitude", "GPSAltitudeRef"},
            <<40, 26, 46>>, "N", <<79, 58, 56>>, "W",
            [numeric |-> TRUE, v |-> 0], 0)

ExifKeys == { "DateTime", "DateTimeOriginal", "GPSInfo" }

Exif(keys, gps_info) ==
    [ k \in keys |->
        CASE k = "DateTime"         -> "2021:02:02 10:00:00"
          [] k = "DateTimeOriginal" -> "2020:01:01 09:00:00"
          [] k = "GPSInfo"          -> gps_info ]

Image(exif) == [readable |-> TRUE, exif |-> exif]
Corrupt == [readable |-> FALSE, exif |-> EmptyDict]

GoodImage == Image(Exif(ExifKeys, Pittsburgh))

Filenames ==
    { <<"">>, <<"photo">>, <<"photo", "jpg">>, <<"photo", "JPG">>, <<"scan", "PNG">>,
      <<"a", "tar", "exe">>, <<"track", "kml">> }

Upload(has_photo, filename, image) ==
    [has_photo |-> has_photo, filename |-> filename, image |-> image]

\* every shape of the request around one image; every header of the metadata
\* around one GPS block; every GPS block under one header
Requests ==
    { Upload(h, f, i) : h \in BOOLEAN, f \in Filenames, i \in {GoodImage, Corrupt} }
    \cup { Upload(TRUE, <<"photo", "jpg">>, i) :
             i \in {Corrupt, Image(EmptyDict)}
                   \cup { Image(Exif(keys, Pittsburgh)) : keys \in SUBSET ExifKeys } }
    \cup { Upload(TRUE, <<"photo", "jpg">>, Image(Exif(ExifKeys, g))) : g \in GpsInfos }

Paris ==
    GpsInfo(GpsKeys, <<48, 51, 29>>, "N", <<2, 17, 40>>, "E",
            [numeric |-> TRUE, v |-> 350], 0)

ConcurrentRequests ==
    { Upload(TRUE, <<"a", "tar", "exe">>, GoodImage),
      Upload(TRUE, <<"photo", "jpg">>, Image(EmptyDict)),
      Upload(TRUE, <<"photo", "jpg">>, Image(Exif({"GPSInfo"}, EmptyDict))),
      Upload(TRUE, <<"photo", "jpg">>, GoodImage),
      Upload(TRUE, <<"photo", "jpg">>, Image(Exif(ExifKeys \ {"DateTime"}, Paris))) }

-----------------------------------------------------------------------------
(* upload_file: one handler invocation per request, its locals in req[p] *)

Fresh(input) ==
    [ input           |-> input,
      pc              |-> "start",
      photo_uuid      |-> None,
      unique_filename |-> None,
      exif_data       |-> None,
      gps_call        |-> None,
      timestamp       |-> None,
      photo_url       |-> None,
      kml_content     |-> None,
      kml_uuid        |-> None,
      kml_filename    |-> None,
      response        |-> None ]

Response(code, body) == [code |-> code, body |-> body]

NoPhotoFile == Response(400, "No photo file provided")
NoFileSelected == Response(400, "No file selected")
UnsupportedFileType ==
    Response(400, "Invalid file type. Please upload JPG, PNG, TIFF, or HEIC files.")
NoMetadata == Response(400, "No EXIF data found in image")
NoGpsData == Response(400, "No GPS coordinates found in image EXIF data")
Success == Response(200, "success")
\* an exception leaving the view function
ServerError(exc) == Response(500, exc)

Finish(p, r) == req' = [req EXCEPT ![p].pc = "done", ![p].response = Some(r)]

\* two identifiers for each invocation
Uuids == 1 .. 2 * Cardinality(DOMAIN req)

Issued ==
    { Val(req[p].photo_uuid) : p \in { q \in DOMAIN req : ~IsNone(req[q].photo_uuid) } }
    \cup { Val(req[p].kml_uuid) : p \in { q \in DOMAIN req : ~IsNone(req[q].kml_uuid) } }

UuidHex(u) == "id" \o ToString(u)

\* uuid.uuid4(): some identifier no earlier call returned
Uuid4Any == Uuids

Uuid4 == Uuids \ Issued

Store(files, name, content) ==
    [ n \in DOMAIN files \cup {name} |-> IF n = name THEN content ELSE files[n] ]

UrlFor(endpoint, filename) == "http://localhost/" \o endpoint \o "/" \o filename

\* exif_data.get('DateTime', exif_data.get('DateTimeOriginal'))
Timestamp(exif_data) ==
    IF Has(exif_data, "DateTime") THEN Some(exif_data["DateTime"])
    ELSE IF Has(exif_data, "DateTimeOriginal") THEN Some(exif_data["DateTimeOriginal"])
    ELSE None

Validate(p) ==
    /\ req[p].pc = "start"
    /\ LET input == req[p].input
       IN  IF ~input.has_photo THEN Finish(p, NoPhotoFile)
           ELSE IF input.filename = <<"">> THEN Finish(p, NoFileSelected)
           ELSE IF AllowedFile(input.filename)
                THEN req' = [req EXCEPT ![p].pc = "save"]
                ELSE Finish(p, UnsupportedFileType)
    /\ UNCHANGED <<uploads, kml_files>>

SavePhoto(p) ==
    /\ req[p].pc = "save"
    /\ \E u \in Uuid4 :
         LET file_extension == Lower(LastPart(req[p].input.filename))
             unique_filename == UuidHex(u) \o "." \o file_extension
         IN  /\ uploads' = Store(uploads, unique_filename, req[p].input.image)
             /\ req' = [req EXCEPT ![p].pc = "extract",
                                   ![p].photo_uuid = Some(u),
                                   ![p].unique_filename = Some(unique_filename)]
    /\ UNCHANGED kml_files

ExtractExifNoGate(p) ==
    /\ req[p].pc = "extract"
    /\ req' = [req EXCEPT ![p].pc = "resolve",
                          ![p].exif_data = GetExifData(uploads[Val(req[p].unique_filename)])]
    /\ UNCHANGED <<uploads, kml_files>>

ExtractExif(p) ==
    /\ req[p].pc = "extract"
    /\ LET exif_data == GetExifData(uploads[Val(req[p].unique_filename)])
       IN  IF IsNone(exif_data) THEN Finish(p, NoMetadata)
           ELSE req' = [req EXCEPT ![p].pc = "resolve", ![p].exif_data = exif_data]
    /\ UNCHANGED <<uploads, kml_files>>

ResolveGps(p) ==
    /\ req[p].pc = "resolve"
    /\ LET call == GetGpsCoordinates(req[p].exif_data)
       IN  IF call.status = "raise"
           THEN req' = [req EXCEPT ![p].pc = "done", ![p].gps_call = Some(call),
                                   ![p].response = Some(ServerError(call.exc))]
           ELSE IF IsNone(call.value)
           THEN req' = [req EXCEPT ![p].pc = "done", ![p].gps_call = Some(call),
                                   ![p].response = Some(NoGpsData)]
           ELSE req' = [req EXCEPT ![p].pc = "build", ![p].gps_call = Some(call)]
    /\ UNCHANGED <<uploads, kml_files>>

Coordinates(p) == Val(Val(req[p].gps_call).value)

BuildKml(p) ==
    /\ req[p].pc = "build"
    /\ LET timestamp == Timestamp(Val(req[p].exif_data))
           photo_url == UrlFor("uploads", Val(req[p].unique_filename))
           kml_content == CreateKml(JoinDots(req[p].input.filename), Coordinates(p),
                                    photo_url, timestamp)
       IN  req' = [req EXCEPT ![p].pc = "write",
                              ![p].timestamp = timestamp,
                              ![p].photo_url = Some(photo_url),
                              ![p].kml_content = Some(kml_content)]
    /\ UNCHANGED <<uploads, kml_files>>

SaveKml(p) ==
    /\ req[p].pc = "write"
    /\ \E u \in Uuid4 :
         LET kml_filename == UuidHex(u) \o ".kml"
         IN  /\ kml_files' = Store(kml_files, kml_filename, Val(req[p].kml_content))
             /\ req' = [req EXCEPT ![p].pc = "done",
                                   ![p].kml_uuid = Some(u),
                                   ![p].kml_filename = Some(kml_filename),
                                   ![p].response = Some(Success)]
    /\ UNCHANGED uploads

Init ==
    /\ req \in [{1} -> {Fresh(input) : input \in Requests}]
    /\ uploads = EmptyDict
    /\ kml_files = EmptyDict

\* two invocations of the handler in flight at once
InitConcurrent ==
    /\ req \in [{1, 2} -> {Fresh(input) : input \in ConcurrentRequests}]
    /\ uploads = EmptyDict
    /\ kml_files = EmptyDict

Next ==
    \E p \in DOMAIN req :
        \/ Validate(p)
        \/ SavePhoto(p)
        \/ ExtractExif(p)
        \/ ResolveGps(p)
        \/ BuildKml(p)
        \/ SaveKml(p)

Spec == Init /\ [][Next]_vars

SpecConcurrent == InitConcurrent /\ [][Next]_vars

-----------------------------------------------------------------------------
(* Properties *)

Done(p) == req[p].pc = "done"
Responded(p, r) == Done(p) /\ req[p].response = Some(r)
Resolved(p) ==
    /\ ~IsNone(req[p].gps_call)
    /\ Val(req[p].gps_call).status = "return"
    /\ ~IsNone(Val(req[p].gps_call).value)
Built(p) == ~IsNone(req[p].kml_content)
Kml(p) == Val(req[p].kml_content)
Contains(text, token) == \E i \in DOMAIN text : text[i] = token

ImageOf(p) == req[p].input.image
GpsOf(p) == ImageOf(p).exif["GPSInfo"]
ArcSeconds(value) == value[1] * 3600 + value[2] * 60 + value[3]

\* C1: get_gps_coordinates never raises; it returns None or Coordinates with
\* latitude and longitude both defined; with only one of the latitude and
\* longitude pairs present, or no GPSInfo, it returns None.
C1_AllOrNothing ==
    \A p \in DOMAIN req :
        ~IsNone(req[p].gps_call) =>
            LET call == Val(req[p].gps_call)
                exif == Val(req[p].exif_data)
            IN  /\ call.status = "return"
                /\ ~Has(exif, "GPSInfo") => IsNone(call.value)
                /\ ( /\ Has(exif, "GPSInfo")
                     /\ HasPair(exif["GPSInfo"], "GPSLatitude", "GPSLatitudeRef")
                          # HasPair(exif["GPSInfo"], "GPSLongitude", "GPSLongitudeRef") )
                       => IsNone(call.value)

\* C2: the three gates short-circuit. No or unreadable metadata gives NoMetadata
\* with the resolver and builder not run; an absent resolution gives NoGpsData
\* with the builder not run; the builder runs and a KML file is written only
\* after both gates passed, so no KML file exists after a failed gate.
C2_GatesShortCircuit ==
    /\ \A p \in DOMAIN req :
        /\ (Done(p) /\ ~IsNone(req[p].unique_filename)
                /\ (~ImageOf(p).readable \/ ImageOf(p).exif = EmptyDict))
              => Responded(p, NoMetadata)
        /\ Responded(p, NoMetadata)
              => IsNone(req[p].gps_call) /\ ~Built(p) /\ IsNone(req[p].kml_filename)
        /\ (~IsNone(req[p].gps_call) /\ Val(req[p].gps_call) = Returned(None))
              => Responded(p, NoGpsData)
        /\ Responded(p, NoGpsData) => ~Built(p) /\ IsNone(req[p].kml_filename)
        /\ Built(p) => ~IsNone(req[p].exif_data) /\ Resolved(p)
        /\ (Done(p) /\ ~Responded(p, Success)) => kml_files = EmptyDict
    /\ \A n \in DOMAIN kml_files :
         \E p \in DOMAIN req :
            req[p].kml_filename = Some(n) /\ Built(p) /\ Resolved(p)
                /\ kml_files[n] = Kml(p)

C2_Witness ==
    \E p \in DOMAIN req :
        /\ Responded(p, NoMetadata) /\ ~IsNone(req[p].unique_filename)
        /\ ~ImageOf(p).readable

\* C3: the resolved latitude is d + m/60 + s/3600, negated iff GPSLatitudeRef is
\* "S", and the resolved longitude likewise, negated iff GPSLongitudeRef is "W"
\* (in arc-seconds, d*3600 + m*60 + s).
C3_DmsToDecimal ==
    \A p \in DOMAIN req :
        Resolved(p) =>
            /\ Coordinates(p).latitude =
                 [neg |-> GpsOf(p)["GPSLatitudeRef"] = "S",
                  num |-> ArcSeconds(GpsOf(p)["GPSLatitude"]), den |-> 3600]
            /\ Coordinates(p).longitude =
                 [neg |-> GpsOf(p)["GPSLongitudeRef"] = "W",
                  num |-> ArcSeconds(GpsOf(p)["GPSLongitude"]), den |-> 3600]

C3_Witness ==
    \E p \in DOMAIN req :
        /\ Resolved(p)
        /\ GpsOf(p)["GPSLatitude"] = <<40, 26, 46>> /\ GpsOf(p)["GPSLatitudeRef"] = "S"
        /\ GpsOf(p)["GPSLongitude"] = <<1, 59, 1>> /\ GpsOf(p)["GPSLongitudeRef"] = "W"
        /\ Coordinates(p).latitude.num = 145606

\* C4: the builder includes altitude iff Coordinates has one; altitude 0 above
\* sea level is resolved as 0, is rendered as 0.00 in the description and makes
\* the point text longitude,latitude,altitude.
C4_ZeroAltitudeIncluded ==
    \A p \in DOMAIN req :
        Built(p) =>
            LET c == Coordinates(p)
                two == FloatStr(c.longitude) \o "," \o FloatStr(c.latitude)
            IN  /\ (Has(GpsOf(p), "GPSAltitude") /\ GpsOf(p)["GPSAltitude"].v = 0)
                      => ~IsNone(c.altitude) /\ Val(c.altitude).num = 0
                /\ IF IsNone(c.altitude)
                   THEN Kml(p).coordinates = two
                   ELSE /\ Kml(p).coordinates = two \o "," \o FloatStr(Val(c.altitude))
                        /\ Contains(Kml(p).pm_description,
                               "Altitude: " \o FormatFixed(Val(c.altitude), 2) \o "m")

PointTextRounded(c) ==
    FormatFixed(c.longitude, 6) \o "," \o FormatFixed(c.latitude, 6)
        \o (IF IsNone(c.altitude) THEN ""
            ELSE "," \o FormatFixed(Val(c.altitude), 2))

\* C5 as stated: the point text is longitude,latitude rounded to 6 decimals,
\* with altitude rounded to 2 decimals when present.
C5_PointTextRounded ==
    \A p \in DOMAIN req : Built(p) => Kml(p).coordinates = PointTextRounded(Coordinates(p))

\* C5 amended: the point text is longitude,latitude, longitude first, each the
\* float's full str() form and not rounded; a third component, where the builder
\* writes one, is altitude in full str() form; with altitude absent there are
\* exactly two components. The 6-decimal rounding is that of the description's
\* Coordinates line only.
C5_PointTextUnrounded ==
    \A p \in DOMAIN req :
        Built(p) =>
            LET c == Coordinates(p)
                two == FloatStr(c.longitude) \o "," \o FloatStr(c.latitude)
            IN  /\ IsNone(c.altitude) => Kml(p).coordinates = two
                /\ ~IsNone(c.altitude) =>
                      Kml(p).coordinates
                          \in {two, two \o "," \o FloatStr(Val(c.altitude))}
                /\ Contains(Kml(p).pm_description,
                       "Coordinates: " \o FormatFixed(c.latitude, 6) \o ", "
                           \o FormatFixed(c.longitude, 6))

C5_Witness ==
    \E p \in DOMAIN req :
        /\ Built(p)
        /\ GpsOf(p) = Pittsburgh
        /\ Contains(Kml(p).pm_description, "Coordinates: 40.446111, -79.982222")
        /\ Kml(p).coordinates # "-79.982222,40.446111"

TimestampOriginalFirst(exif_data) ==
    IF Has(exif_data, "DateTimeOriginal") THEN Some(exif_data["DateTimeOriginal"])
    ELSE IF Has(exif_data, "DateTime") THEN Some(exif_data["DateTime"])
    ELSE None

\* C6: the timestamp given to the builder is DateTimeOriginal, DateTime only when
\* DateTimeOriginal is absent, none (shown as "Unknown") when both are absent.
C6_OriginalFirst ==
    \A p \in DOMAIN req :
        Built(p) =>
            /\ req[p].timestamp = TimestampOriginalFirst(Val(req[p].exif_data))
            /\ Contains(Kml(p).pm_description,
                   "Captured: " \o TimestampText(TimestampOriginalFirst(Val(req[p].exif_data))))

\* C7: in the serialized document the description's tags are markup, not
\* escaped entities.
C7_DescriptionUnescaped ==
    \A p \in DOMAIN req :
        Built(p) =>
            LET d == Kml(p).pm_description
            IN  /\ \E i \in DOMAIN d : i + 2 \in DOMAIN d /\ d[i] = "<"
                                         /\ d[i + 1] = "h3" /\ d[i + 2] = ">"
                /\ ~Contains(d, "&lt;") /\ ~Contains(d, "&gt;")

\* the response of upload_file as a function of the request alone
SoloResponse(input) ==
    IF ~input.has_photo THEN NoPhotoFile
    ELSE IF input.filename = <<"">> THEN NoFileSelected
    ELSE IF ~(Len(input.filename) > 1
              /\ Lower(input.filename[Len(input.filename)]) \in ALLOWED_EXTENSIONS)
         THEN UnsupportedFileType
    ELSE IF ~input.image.readable \/ input.image.exif = EmptyDict THEN NoMetadata
    ELSE LET call == GetGpsCoordinates(Some(input.image.exif))
         IN  IF call.status = "raise" THEN ServerError(call.exc)
             ELSE IF IsNone(call.value) THEN NoGpsData
             ELSE Success

\* C8: concurrent uploads are independent. No two runs write the same photo or
\* KML path, each run reads back its own photo, each stored file is its
\* writer's, and each run's outcome is the one its request has alone.
C8_UploadsIndependent ==
    \A p \in DOMAIN req :
        /\ \A q \in DOMAIN req \ {p} :
            /\ ~IsNone(req[p].unique_filename)
                  => req[q].unique_filename # req[p].unique_filename
            /\ ~IsNone(req[p].kml_filename) => req[q].kml_filename # req[p].kml_filename
        /\ ~IsNone(req[p].unique_filename)
              => uploads[Val(req[p].unique_filename)] = ImageOf(p)
        /\ ~IsNone(req[p].exif_data) => req[p].exif_data = Some(ImageOf(p).exif)
        /\ ~IsNone(req[p].kml_filename)
              => /\ kml_files[Val(req[p].kml_filename)] = Kml(p)
                 /\ Kml(p) = CreateKml(JoinDots(req[p].input.filename),
                                       Val(GetGpsCoordinates(Some(ImageOf(p).exif)).value),
                                       UrlFor("uploads", Val(req[p].unique_filename)),
                                       Timestamp(ImageOf(p).exif))
        /\ Done(p) => req[p].response = Some(SoloResponse(req[p].input))

C8_Witness ==
    \E p, q \in DOMAIN req :
        /\ p # q
        /\ Responded(p, Success) /\ Responded(q, Success)
        /\ GpsOf(p) = Pittsburgh /\ GpsOf(q) = Paris
        /\ Cardinality(DOMAIN uploads) >= 2 /\ Cardinality(DOMAIN kml_files) >= 2

AltitudeBelowSea(g) == Has(g, "GPSAltitudeRef") /\ g["GPSAltitudeRef"] = 1

\* C9 as stated: latitude < 0 iff the reference is "S", longitude < 0 iff it is
\* "W", altitude (when present) < 0 iff GPSAltitudeRef is 1.
C9_NegativeIffRef ==
    \A p \in DOMAIN req :
        Resolved(p) =>
            LET c == Coordinates(p)
            IN  /\ IsNegative(c.latitude) <=> GpsOf(p)["GPSLatitudeRef"] = "S"
                /\ IsNegative(c.longitude) <=> GpsOf(p)["GPSLongitudeRef"] = "W"
                /\ ~IsNone(c.altitude)
                      => (IsNegative(Val(c.altitude)) <=> AltitudeBelowSea(GpsOf(p)))

\* C9 amended: latitude is negated iff the reference is "S", longitude iff it is
\* "W", altitude (when present) iff GPSAltitudeRef is 1; so each is < 0 iff its
\* reference says so and its magnitude is not zero (a zero is negated to -0.0,
\* which is not < 0).
C9_NegatedIffRef ==
    \A p \in DOMAIN req :
        Resolved(p) =>
            LET c == Coordinates(p)
                g == GpsOf(p)
            IN  /\ c.latitude.neg <=> g["GPSLatitudeRef"] = "S"
                /\ IsNegative(c.latitude)
                     <=> (g["GPSLatitudeRef"] = "S" /\ ArcSeconds(g["GPSLatitude"]) # 0)
                /\ c.longitude.neg <=> g["GPSLongitudeRef"] = "W"
                /\ IsNegative(c.longitude)
                     <=> (g["GPSLongitudeRef"] = "W" /\ ArcSeconds(g["GPSLongitude"]) # 0)
                /\ IsNone(c.altitude) <=> ~Has(g, "GPSAltitude")
                /\ ~IsNone(c.altitude) =>
                     /\ Val(c.altitude).neg <=> AltitudeBelowSea(g)
                     /\ Val(c.altitude).num = g["GPSAltitude"].v
                     /\ IsNegative(Val(c.altitude))
                          <=> (AltitudeBelowSea(g) /\ g["GPSAltitude"].v # 0)

C9_Witness ==
    \E p \in DOMAIN req :
        /\ Resolved(p)
        /\ GpsOf(p)["GPSLatitudeRef"] = "S" /\ GpsOf(p)["GPSLongitudeRef"] = "E"
        /\ Coordinates(p).altitude = Some([neg |-> TRUE, num |-> 100, den |-> 10])
        /\ FloatStr(Val(Coordinates(p).altitude)) = "-10.0"

\* C10: the photo is stored only once the extension passed the allowlist and
\* before any gate runs, and stays stored: after NoMetadata or NoGpsData the
\* photo is in the upload store and no KML file exists; after an
\* UnsupportedFileType rejection nothing is stored.
C10_PhotoKept ==
    \A p \in DOMAIN req :
        LET f == req[p].input.filename
        IN  /\ uploads # EmptyDict
                 => /\ req[p].input.has_photo /\ Len(f) > 1
                    /\ Lower(f[Len(f)]) \in ALLOWED_EXTENSIONS
                    /\ DOMAIN uploads = {Val(req[p].unique_filename)}
            /\ req[p].pc \in {"extract", "resolve", "build", "write"}
                 => uploads[Val(req[p].unique_filename)] = ImageOf(p)
            /\ (Responded(p, NoMetadata) \/ Responded(p, NoGpsData))
                 => /\ ~IsNone(req[p].unique_filename)
                    /\ uploads[Val(req[p].unique_filename)] = ImageOf(p)
                    /\ kml_files = EmptyDict
            /\ Responded(p, UnsupportedFileType)
                 => uploads = EmptyDict /\ kml_files = EmptyDict

C10_Witness ==
    \E p \in DOMAIN req :
        /\ Responded(p, NoGpsData)
        /\ req[p].input.filename = <<"photo", "jpg">>
        /\ DOMAIN uploads = {Val(req[p].unique_filename)}
        /\ kml_files = EmptyDict

====
